---------------------------- MODULE Spec2Model ----------------------------
(***************************************************************************)
(* A model of the PPI explorer (src/app.py): the location normalizer       *)
(* LOC_CAT_EXPR, the four query operations over the idmap and edges        *)
(* tables, and the download cache of _download_to_tmp.                     *)
(*                                                                         *)
(* Text is modelled by TLA+ strings, read character by character with      *)
(* SubSeq.  A nullable SQL value is a tuple: <<>> is NULL, <<v>> is v.      *)
(***************************************************************************)
EXTENDS Integers, Sequences, FiniteSets, TLC

VARIABLES
    idmap,      \* the idmap view: a sequence of [id, protein_name, location]
    edges,      \* the edges view: a sequence of [src, dst, score, strength]
    op,         \* the query operation being called
    args,       \* its arguments
    pc,         \* "call" before the operation has run, "done" after
    result,     \* what it returned (<<>> before it has run)
    file,       \* the cache file tmp/ppi_explorer/idmap.parquet
    remote,     \* the number of chunks of the file behind IDMAP_URL
    proc,       \* per app process: where it is in get_con, and its caches
    calls,      \* the get_con calls made so far
    downloaded  \* some call of _download_to_tmp has returned from a download

queryVars == <<idmap, edges, op, args, pc, result>>

cacheVars == <<file, remote, proc, calls, downloaded>>

vars == <<idmap, edges, op, args, pc, result, file, remote, proc, calls, downloaded>>

(***************************************************************************)
(* Bounds of the model.                                                    *)
(***************************************************************************)
MaxPad == 2

\* The app processes that share the temporary directory.
Procs == {"p1", "p2"}

(***************************************************************************)
(* SQL values and text.                                                    *)
(***************************************************************************)
NULL == <<>>

Some(v) == <<v>>

IsNull(v) == v = <<>>

Val(v) == v[1]

\* The characters of the model in code-point order (tab is 9, space is 32).
Alphabet == "\t %,-.0123456789;ABCDEFGHIJKLMNOPQRSTUVWXYZ_abcdefghijklmnopqrstuvwxyz"

UpperLetters == "ABCDEFGHIJKLMNOPQRSTUVWXYZ"

LowerLetters == "abcdefghijklmnopqrstuvwxyz"

CharAt(s, i) == SubSeq(s, i, i)

Chars == {CharAt(Alphabet, i) : i \in 1..Len(Alphabet)}

\* Position of a character in code-point order.
Ord == [c \in Chars |-> CHOOSE i \in 1..Len(Alphabet) : CharAt(Alphabet, i) = c]

LowerChar == [c \in Chars |->
                IF \E i \in 1..26 : CharAt(UpperLetters, i) = c
                THEN CharAt(LowerLetters, CHOOSE i \in 1..26 : CharAt(UpperLetters, i) = c)
                ELSE c]

UpperChar == [c \in Chars |->
                IF \E i \in 1..26 : CharAt(LowerLetters, i) = c
                THEN CharAt(UpperLetters, CHOOSE i \in 1..26 : CharAt(LowerLetters, i) = c)
                ELSE c]

RECURSIVE lower(_)
\* SQL lower(): every character to lower case.
lower(s) == IF s = "" THEN "" ELSE LowerChar[CharAt(s, 1)] \o lower(Tail(s))

RECURSIVE upper(_)
upper(s) == IF s = "" THEN "" ELSE UpperChar[CharAt(s, 1)] \o upper(Tail(s))

\* The characters TRIM(x) strips: DuckDB's one-argument trim removes the
\* space separators (Unicode category Zs), which in this alphabet is the
\* space; a tab (category Cc) stays.
TrimChars == {" "}

RECURSIVE LTrim(_)
LTrim(s) == IF s # "" /\ CharAt(s, 1) \in TrimChars THEN LTrim(Tail(s)) ELSE s

RECURSIVE RTrim(_)
RTrim(s) == IF s # "" /\ CharAt(s, Len(s)) \in TrimChars
            THEN RTrim(SubSeq(s, 1, Len(s) - 1))
            ELSE s

\* SQL TRIM(x) of a text.
TRIM(s) == RTrim(LTrim(s))

RECURSIVE LikeMatch(_, _)
\* SQL x LIKE p on texts: % is any run of characters, _ any one character,
\* there is no escape character.
LikeMatch(s, p) ==
    IF p = "" THEN s = ""
    ELSE IF CharAt(p, 1) = "%"
         THEN IF Len(p) = 1 THEN TRUE
              ELSE \E i \in 0..Len(s) : LikeMatch(SubSeq(s, i + 1, Len(s)), Tail(p))
         ELSE /\ s # ""
              /\ CharAt(p, 1) = "_" \/ CharAt(p, 1) = CharAt(s, 1)
              /\ LikeMatch(Tail(s), Tail(p))

\* x LIKE p with x nullable: NULL LIKE p is NULL, which no WHEN or WHERE takes.
LIKE(x, p) == ~IsNull(x) /\ LikeMatch(Val(x), p)

\* x ILIKE p: LIKE without regard to case.
ILIKE(x, p) == ~IsNull(x) /\ LikeMatch(lower(Val(x)), lower(p))

RECURSIVE StrLess(_, _)
\* a < b in the binary collation ORDER BY uses.
StrLess(a, b) ==
    IF b = "" THEN FALSE
    ELSE IF a = "" THEN TRUE
    ELSE IF CharAt(a, 1) = CharAt(b, 1) THEN StrLess(Tail(a), Tail(b))
    ELSE Ord[CharAt(a, 1)] < Ord[CharAt(b, 1)]

(***************************************************************************)
(* LOC_CAT_EXPR: the normalized location bucket of m.location.             *)
(***************************************************************************)
LocLower(loc) == IF IsNull(loc) THEN NULL ELSE Some(lower(Val(loc)))

LOC_CAT_EXPR(loc) ==
    LET l == LocLower(loc) IN
    IF IsNull(loc) \/ TRIM(Val(loc)) = "" THEN "Unknown"
    ELSE IF LIKE(l, "%mitochond%") THEN "Mitochondrion"
    ELSE IF LIKE(l, "%endoplasmic reticulum%") THEN "Endoplasmic Reticulum"
    ELSE IF LIKE(l, "%golgi%") THEN "Golgi apparatus"
    ELSE IF LIKE(l, "%plasma membrane%") \/ LIKE(l, "%cell membrane%")
            \/ LIKE(l, "%cell surface%") THEN "Plasma membrane"
    ELSE IF LIKE(l, "%lysosom%") THEN "Lysosome"
    ELSE IF LIKE(l, "%endosom%") THEN "Endosome"
    ELSE IF LIKE(l, "%peroxisom%") THEN "Peroxisome"
    ELSE IF LIKE(l, "%cytosol%") \/ LIKE(l, "%cytoplasm%") THEN "Cytoplasm"
    ELSE IF LIKE(l, "%nucleus%") \/ LIKE(l, "%nucleoplasm%") \/ LIKE(l, "%nucleolus%")
            \/ LIKE(l, "%chromosom%") \/ LIKE(l, "%chromatin%") THEN "Nucleus"
    ELSE IF LIKE(l, "%cytoskeleton%") \/ LIKE(l, "%microtubule%") \/ LIKE(l, "%actin%")
            \/ LIKE(l, "%intermediate filament%") THEN "Cytoskeleton"
    ELSE IF LIKE(l, "%extracellular%") \/ LIKE(l, "%secreted%") THEN "Extracellular"
    ELSE IF LIKE(l, "%ribosom%") THEN "Ribosome"
    ELSE IF LIKE(l, "%centrosom%") THEN "Centrosome"
    ELSE IF LIKE(l, "%membrane%") THEN "Membrane"
    ELSE "Other"

(***************************************************************************)
(* The download cache: its state when nothing has been loaded yet.         *)
(***************************************************************************)
\* No file at dst.
NoFile == [exists |-> FALSE, data |-> <<>>]

\* A process that has just started: nothing cached, no call under way.  The
\* fields after con record, for the call under way or last made, what it
\* found and did.
FreshProc ==
    [pc |-> "idle", pos |-> 0, memo |-> NULL, con |-> FALSE,
     sawFile |-> FALSE, after |-> FALSE, okBefore |-> FALSE, issued |-> FALSE,
     served |-> NULL, outcome |-> "none"]

NothingLoaded ==
    /\ file = NoFile
    /\ remote = 1
    /\ proc = [p \in Procs |-> FreshProc]
    /\ calls = 0
    /\ downloaded = FALSE

(***************************************************************************)
(* The location texts the normalizer is run on.                            *)
(***************************************************************************)
LocKeywords ==
    {"mitochond", "endoplasmic reticulum", "golgi", "plasma membrane", "cell membrane",
     "cell surface", "lysosom", "endosom", "peroxisom", "cytosol", "cytoplasm",
     "nucleus", "nucleoplasm", "nucleolus", "chromosom", "chromatin", "cytoskeleton",
     "microtubule", "actin", "intermediate filament", "extracellular", "secreted",
     "ribosom", "centrosom", "membrane"}

\* Runs of spaces and tabs of up to MaxPad characters.
RECURSIVE Blanks(_)
Blanks(n) == IF n = 0 THEN {""}
             ELSE Blanks(n - 1) \cup {b \o c : b \in Blanks(n - 1), c \in {" ", "\t"}}

LocTexts ==
    Blanks(MaxPad)
    \cup {"nuclear membrane", "Nuclear membrane", "random unmapped tissue", "Nucleus",
          "Cell membrane; Single-pass membrane protein", "interacting", "nuclear",
          "Mitochondrion inner membrane", "Secreted", "ER", "Golgi apparatus membrane"}
    \cup {b \o k \o b : b \in Blanks(MaxPad - 1), k \in LocKeywords}
    \cup {upper(k) : k \in LocKeywords}
    \cup {k1 \o "; " \o k2 : k1 \in LocKeywords, k2 \in LocKeywords}

LocValues == {NULL} \cup {Some(t) : t \in LocTexts}

(***************************************************************************)
(* The normalizer alone: one idmap row, its location drawn from LocValues, *)
(* and the evaluation of LOC_CAT_EXPR over it.                             *)
(***************************************************************************)
InitNorm ==
    /\ \E l \in LocValues :
          idmap = <<[id |-> "P1", protein_name |-> NULL, location |-> l]>>
    /\ edges = <<>>
    /\ op = "normalize"
    /\ args = <<>>
    /\ pc = "call"
    /\ result = <<>>
    /\ NothingLoaded

\* SELECT {LOC_CAT_EXPR} AS loc_cat FROM idmap m
Normalize ==
    /\ pc = "call"
    /\ op = "normalize"
    /\ result' = [i \in 1..Len(idmap) |-> LOC_CAT_EXPR(idmap[i].location)]
    /\ pc' = "done"
    /\ UNCHANGED <<idmap, edges, op, args, cacheVars>>

NextNorm == Normalize

SpecNorm == InitNorm /\ [][NextNorm]_vars


(***************************************************************************)
(* Relational helpers: LIMIT, GROUP BY, the orders of rows that tie.       *)
(***************************************************************************)
Min(a, b) == IF a < b THEN a ELSE b

\* LIMIT n
Limit(rows, n) == SubSeq(rows, 1, Min(n, Len(rows)))

RECURSIVE Orderings(_, _, _)
\* Every arrangement of the rows indexed by S in which no row comes after a
\* row it precedes (before holds the pairs <<i, j>> with rows[i] sorting
\* strictly before rows[j]): rows that tie come in any order.
Orderings(rows, S, before) ==
    IF S = {} THEN {<<>>}
    ELSE UNION {{<<rows[i]>> \o t : t \in Orderings(rows, S \ {i}, before)} :
                  i \in {i \in S : \A j \in S : <<j, i>> \notin before}}

RECURSIVE Distinct(_)
\* GROUP BY over every selected column: one row per distinct value.
Distinct(rows) ==
    IF rows = <<>> THEN <<>>
    ELSE LET rest == Distinct(SubSeq(rows, 1, Len(rows) - 1))
             last == rows[Len(rows)]
         IN IF \E i \in 1..Len(rest) : rest[i] = last THEN rest ELSE Append(rest, last)

RECURSIVE Flatten(_, _, _)
\* The concatenation of parts[lo], ..., parts[hi].
Flatten(parts, lo, hi) ==
    IF lo > hi THEN <<>>
    ELSE IF lo = hi THEN parts[lo]
    ELSE LET mid == (lo + hi) \div 2
         IN Flatten(parts, lo, mid) \o Flatten(parts, mid + 1, hi)

(***************************************************************************)
(* The query core.                                                         *)
(***************************************************************************)
\* COALESCE(NULLIF(TRIM(protein_name), ''), fallback)
PName(protein_name, fallback) ==
    IF IsNull(protein_name) THEN fallback
    ELSE IF TRIM(Val(protein_name)) = "" THEN fallback
    ELSE TRIM(Val(protein_name))

\* One SELECT list of get_candidates.
CandidateRow(m, rank) ==
    [id |-> m.id, pname |-> PName(m.protein_name, m.id),
     loc_cat |-> LOC_CAT_EXPR(m.location), rank |-> rank]

\* The id_hits CTE: exact id (rank 1), then id prefix (rank 2).
IdHits(query_text) ==
    LET exact(m) == m.id = query_text
        prefix(m) == ILIKE(Some(m.id), query_text \o "%")
        e == SelectSeq(idmap, exact)
        p == SelectSeq(idmap, prefix)
    IN [i \in 1..Len(e) |-> CandidateRow(e[i], 1)] \o [i \in 1..Len(p) |-> CandidateRow(p[i], 2)]

\* The name_hits CTE: protein_name substring (rank 3).
NameHits(query_text) ==
    LET hit(m) == ILIKE(m.protein_name, "%" \o query_text \o "%")
        n == SelectSeq(idmap, hit)
    IN [i \in 1..Len(n) |-> CandidateRow(n[i], 3)]

\* GROUP BY id, pname, loc_cat, rank
GroupCandidates(rows) == Distinct(rows)

\* A slip: ORDER BY pname alone, the rank forgotten.
RankThenName_NameOnly(a, b) == StrLess(a.pname, b.pname)

\* ORDER BY rank, pname
RankThenName(a, b) == a.rank < b.rank \/ (a.rank = b.rank /\ StrLess(a.pname, b.pname))

\* ORDER BY pname
ByName(a, b) == StrLess(a.pname, b.pname)

\* The row orders ORDER BY rank, pname may produce: the one sorted sequence
\* when no two rows tie, else every order of the rows that tie.
OrderByRankPname(rows) ==
    LET s == SortSeq(rows, RankThenName)
        idx == 1..Len(rows)
    IN IF \A i \in 1..(Len(s) - 1) : RankThenName(s[i], s[i + 1])
       THEN {s}
       ELSE Orderings(rows, idx, {p \in idx \X idx : RankThenName(rows[p[1]], rows[p[2]])})

\* The row orders ORDER BY pname may produce.
OrderByPname(rows) ==
    LET s == SortSeq(rows, ByName)
        idx == 1..Len(rows)
    IN IF \A i \in 1..(Len(s) - 1) : ByName(s[i], s[i + 1])
       THEN {s}
       ELSE Orderings(rows, idx, {p \in idx \X idx : ByName(rows[p[1]], rows[p[2]])})

\* SELECT id, pname, loc_cat
CandidateColumns(rows) ==
    [i \in 1..Len(rows) |-> [id |-> rows[i].id, pname |-> rows[i].pname, loc_cat |-> rows[i].loc_cat]]

\* query_text and " " not in query_text and len(query_text) <= 12
LooksLikeId(query_text) ==
    /\ query_text # ""
    /\ \A i \in 1..Len(query_text) : CharAt(query_text, i) # " "
    /\ Len(query_text) <= 12

\* The ranked three-tier query of get_candidates, before LIMIT.
RankedCandidates(query_text) ==
    OrderByRankPname(GroupCandidates(IdHits(query_text) \o NameHits(query_text)))

\* The name-only query of get_candidates, before LIMIT.
NamedCandidates(query_text) ==
    OrderByPname(NameHits(query_text))

\* get_candidates(con, query_text, limit): the results the engine may return.
get_candidates(query_text, limit) ==
    IF LooksLikeId(query_text)
    THEN {CandidateColumns(Limit(r, limit)) : r \in RankedCandidates(query_text)}
    ELSE {CandidateColumns(Limit(r, limit)) : r \in NamedCandidates(query_text)}

\* get_display_name(con, uniprot_id): fetchone() of the rows with that id.
get_display_name(uniprot_id) ==
    LET hit(m) == m.id = uniprot_id
        rows == SelectSeq(idmap, hit)
    IN IF rows # <<>> THEN PName(rows[1].protein_name, uniprot_id) ELSE uniprot_id

\* A slip: the edges that name uniprot_id as dst forgotten (WHERE e.src = ?).
Nbrs_SrcOnly(uniprot_id) ==
    LET touches(e) == e.src = uniprot_id
        t == SelectSeq(edges, touches)
    IN [i \in 1..Len(t) |->
          [partner |-> t[i].dst, score |-> t[i].score, strength |-> t[i].strength]]

\* The nbrs CTE: the edges that touch uniprot_id, seen from it.
Nbrs(uniprot_id) ==
    LET touches(e) == e.src = uniprot_id \/ e.dst = uniprot_id
        t == SelectSeq(edges, touches)
    IN [i \in 1..Len(t) |->
          [partner |-> IF t[i].src = uniprot_id THEN t[i].dst ELSE t[i].src,
           score |-> t[i].score, strength |-> t[i].strength]]

\* nbrs n LEFT JOIN idmap m ON m.id = n.partner, with the SELECT list of
\* fetch_interactions; an unmatched partner joins a row of NULLs.
JoinRow(n, protein_name, location) ==
    [partner_id |-> n.partner,
     partner_protein_name |-> PName(protein_name, n.partner),
     partner_location_category |-> LOC_CAT_EXPR(location),
     score |-> n.score, strength |-> n.strength]

LeftJoinIdmap(nbrs) ==
    LET joined(n) ==
            LET on(m) == m.id = n.partner
                ms == SelectSeq(idmap, on)
            IN IF ms = <<>> THEN <<JoinRow(n, NULL, NULL)>>
               ELSE [i \in 1..Len(ms) |-> JoinRow(n, ms[i].protein_name, ms[i].location)]
    IN Flatten([i \in 1..Len(nbrs) |-> joined(nbrs[i])], 1, Len(nbrs))

\* n.score >= ?
ScoreFilter(row, min_score) == row.score >= min_score

\* (? IS NULL OR n.strength = ?)
StrengthFilter(row, strength) == IsNull(strength) \/ row.strength = Val(strength)

\* A slip: the category filter never added to the query.
CatFilter_Ignored(row, loc_cats) == TRUE

\* cat_filter: AND {LOC_CAT_EXPR} IN (...) when loc_cats is a non-empty list.
CatFilter(row, loc_cats) ==
    loc_cats = <<>> \/ \E i \in 1..Len(loc_cats) : row.partner_location_category = loc_cats[i]

\* ORDER BY n.score DESC
ByScoreDesc(a, b) == a.score > b.score

\* The row orders ORDER BY n.score DESC may produce.
OrderByScoreDesc(rows) ==
    LET s == SortSeq(rows, ByScoreDesc)
        idx == 1..Len(rows)
    IN IF \A i \in 1..(Len(s) - 1) : ByScoreDesc(s[i], s[i + 1])
       THEN {s}
       ELSE Orderings(rows, idx, {p \in idx \X idx : ByScoreDesc(rows[p[1]], rows[p[2]])})

\* The rows of fetch_interactions before ORDER BY and LIMIT.
InteractionRows(uniprot_id, min_score, strength, loc_cats) ==
    LET keep(row) == /\ ScoreFilter(row, min_score)
                     /\ StrengthFilter(row, strength)
                     /\ CatFilter(row, loc_cats)
    IN SelectSeq(LeftJoinIdmap(Nbrs(uniprot_id)), keep)

\* fetch_interactions(con, uniprot_id, min_score, strength, loc_cats, limit)
fetch_interactions(uniprot_id, min_score, strength, loc_cats, limit) ==
    {Limit(r, limit) :
        r \in OrderByScoreDesc(InteractionRows(uniprot_id, min_score, strength, loc_cats))}

RECURSIVE SortedSet(_)
\* A set of texts as the ascending sequence.
SortedSet(S) ==
    IF S = {} THEN <<>>
    ELSE LET least == CHOOSE x \in S : \A y \in S : ~StrLess(y, x)
         IN <<least>> \o SortedSet(S \ {least})

\* get_partner_location_categories(con, uniprot_id, min_score, strength):
\* SELECT DISTINCT loc_cat ... ORDER BY loc_cat
get_partner_location_categories(uniprot_id, min_score, strength) ==
    LET rows == InteractionRows(uniprot_id, min_score, strength, <<>>)
    IN SortedSet({rows[i].partner_location_category : i \in 1..Len(rows)})

(***************************************************************************)
(* Candidate search and display names over small idmap tables.             *)
(***************************************************************************)
MaxRows == 2

MaxLimit == 2

DefaultCandidateLimit == 50

IdmapPool ==
    {[id |-> "Q5T5U3", protein_name |-> Some(" Kinase B "), location |-> Some("Nucleus")],
     [id |-> "Q5T5U31", protein_name |-> Some("Aurora kinase"),
      location |-> Some("Cytoplasm; Nucleus")],
     [id |-> "P12345", protein_name |-> NULL, location |-> NULL],
     [id |-> "KIN", protein_name |-> Some("KIN kinase"), location |-> Some("Cell membrane")],
     [id |-> "KIN2", protein_name |-> Some("KIN kinase "), location |-> NULL],
     [id |-> "O00001", protein_name |-> Some("\t"), location |-> Some("\t")],
     [id |-> "A0A024", protein_name |-> Some("  "), location |-> Some(" ")],
     [id |-> "X9", protein_name |-> Some("binds Q5T5U3"), location |-> Some("nuclear membrane")]}

RECURSIVE Tables(_, _)
\* The tables of up to n rows of pool, ids unique.
Tables(pool, n) ==
    IF n = 0 THEN {<<>>}
    ELSE LET shorter == Tables(pool, n - 1)
         IN shorter \cup {Append(t, r) : t \in shorter, r \in pool}

UniqueIds(t) == \A i, j \in 1..Len(t) : t[i].id = t[j].id => i = j

IdmapTables == {t \in Tables(IdmapPool, MaxRows) : UniqueIds(t)}

QueryTexts ==
    {"", "Q5T5U3", "q5t5u3", "Q5", "KIN", "kin", "kinase", "P12345", "ZZZ",
     "Aurora kinase", "aminotransferase", "KIN\t"}

CandidateLimits == (0..MaxLimit) \cup {DefaultCandidateLimit}

DisplayIds == {r.id : r \in IdmapPool} \cup {"ZZZ", "q5t5u3"}

SearchCalls ==
    {[op |-> "get_candidates", args |-> [query_text |-> t, limit |-> n]] :
        t \in QueryTexts, n \in CandidateLimits}
    \cup {[op |-> "get_display_name", args |-> [uniprot_id |-> i]] : i \in DisplayIds}

InitSearch ==
    /\ idmap \in IdmapTables
    /\ edges = <<>>
    /\ \E c \in SearchCalls : op = c.op /\ args = c.args
    /\ pc = "call"
    /\ result = <<>>
    /\ NothingLoaded

GetCandidates ==
    /\ pc = "call"
    /\ op = "get_candidates"
    /\ result' \in get_candidates(args.query_text, args.limit)
    /\ pc' = "done"
    /\ UNCHANGED <<idmap, edges, op, args, cacheVars>>

GetDisplayName ==
    /\ pc = "call"
    /\ op = "get_display_name"
    /\ result' = get_display_name(args.uniprot_id)
    /\ pc' = "done"
    /\ UNCHANGED <<idmap, edges, op, args, cacheVars>>

NextSearch == GetCandidates \/ GetDisplayName

SpecSearch == InitSearch /\ [][NextSearch]_vars

(***************************************************************************)
(* Interaction fetch over small tables, and over the neighbourhood of a    *)
(* hub protein with one partner more than the default limit.  A score is   *)
(* an integer count of 1/10000ths.                                         *)
(***************************************************************************)
MaxEdges == 2

DefaultFetchLimit == 5000

EdgePool ==
    {[src |-> "A1", dst |-> "B2", score |-> 9000, strength |-> "strong"],
     [src |-> "C3", dst |-> "A1", score |-> 9000, strength |-> "weak"],
     [src |-> "A1", dst |-> "C3", score |-> 2500, strength |-> "strong"],
     [src |-> "B2", dst |-> "C3", score |-> 5000, strength |-> "moderate"],
     [src |-> "A1", dst |-> "A1", score |-> 5000, strength |-> "weak"],
     [src |-> "B2", dst |-> "A1", score |-> 2500, strength |-> "weak"]}

EdgeTables == Tables(EdgePool, MaxEdges)

\* Metadata for the fetch: none at all, or records for some of the proteins.
FetchIdmap ==
    <<[id |-> "A1", protein_name |-> Some("Alpha"), location |-> Some("Cytoplasm")],
      [id |-> "B2", protein_name |-> Some(" Kinase B "), location |-> Some("Nucleus")]>>

FetchIdmaps == {<<>>, FetchIdmap}

\* A1 with DefaultFetchLimit + 1 partners, scores all different, the edge to
\* B2 the weakest of them.
HubSize == DefaultFetchLimit + 1

HubEdges ==
    [i \in 1..HubSize |->
        IF i = HubSize
        THEN [src |-> "A1", dst |-> "B2", score |-> 1, strength |-> "weak"]
        ELSE [src |-> "A1", dst |-> "N" \o ToString(i), score |-> HubSize + 1 - i,
              strength |-> "strong"]]

FetchLimits == (0..MaxLimit) \cup {DefaultFetchLimit}

FetchCalls ==
    {[op |-> "fetch_interactions",
      args |-> [uniprot_id |-> i, min_score |-> m, strength |-> st, loc_cats |-> lc,
                limit |-> n]] :
        i \in {"A1", "B2"}, m \in {0, 5000}, st \in {NULL, Some("strong")},
        lc \in {<<>>, <<"Nucleus">>, <<"Unknown", "Cytoplasm">>}, n \in FetchLimits}
    \cup {[op |-> "get_partner_location_categories",
           args |-> [uniprot_id |-> i, min_score |-> m, strength |-> st]] :
        i \in {"A1", "B2"}, m \in {0, 5000}, st \in {NULL, Some("strong")}}

InitFetch ==
    /\ \/ idmap \in FetchIdmaps /\ edges \in EdgeTables
       \/ idmap = FetchIdmap /\ edges = HubEdges
    /\ \E c \in FetchCalls : op = c.op /\ args = c.args
    /\ pc = "call"
    /\ result = <<>>
    /\ NothingLoaded

FetchInteractions ==
    /\ pc = "call"
    /\ op = "fetch_interactions"
    /\ result' \in fetch_interactions(args.uniprot_id, args.min_score, args.strength,
                                      args.loc_cats, args.limit)
    /\ pc' = "done"
    /\ UNCHANGED <<idmap, edges, op, args, cacheVars>>

GetPartnerLocationCategories ==
    /\ pc = "call"
    /\ op = "get_partner_location_categories"
    /\ result' = get_partner_location_categories(args.uniprot_id, args.min_score,
                                                 args.strength)
    /\ pc' = "done"
    /\ UNCHANGED <<idmap, edges, op, args, cacheVars>>

NextFetch == FetchInteractions \/ GetPartnerLocationCategories

SpecFetch == InitFetch /\ [][NextFetch]_vars

(***************************************************************************)
(* Properties of the normalizer (SpecNorm).                                *)
(***************************************************************************)
\* The 16 category labels.
Labels ==
    {"Unknown", "Mitochondrion", "Endoplasmic Reticulum", "Golgi apparatus",
     "Plasma membrane", "Lysosome", "Endosome", "Peroxisome", "Cytoplasm", "Nucleus",
     "Cytoskeleton", "Extracellular", "Ribosome", "Centrosome", "Membrane", "Other"}

\* The ordered predicate list as the specification states it.
PredicateList ==
    << <<"Mitochondrion", {"mitochond"}>>,
       <<"Endoplasmic Reticulum", {"endoplasmic reticulum"}>>,
       <<"Golgi apparatus", {"golgi"}>>,
       <<"Plasma membrane", {"plasma membrane", "cell membrane", "cell surface"}>>,
       <<"Lysosome", {"lysosom"}>>,
       <<"Endosome", {"endosom"}>>,
       <<"Peroxisome", {"peroxisom"}>>,
       <<"Cytoplasm", {"cytosol", "cytoplasm"}>>,
       <<"Nucleus", {"nucleus", "nucleoplasm", "nucleolus", "chromosom", "chromatin"}>>,
       <<"Cytoskeleton", {"cytoskeleton", "microtubule", "actin", "intermediate filament"}>>,
       <<"Extracellular", {"extracellular", "secreted"}>>,
       <<"Ribosome", {"ribosom"}>>,
       <<"Centrosome", {"centrosom"}>>,
       <<"Membrane", {"membrane"}>> >>

\* kw occurs in s as a substring.
Contains(s, kw) ==
    \E i \in 1..(Len(s) - Len(kw) + 1) : SubSeq(s, i, i + Len(kw) - 1) = kw

\* Every character of s is white space (a space or a tab); true of "".
IsBlankText(s) == \A i \in 1..Len(s) : CharAt(s, i) \in {" ", "\t"}

\* The label of the first predicate of the list with a keyword in the text,
\* compared without regard to case; Other when there is none.
FirstMatchLabel(text) ==
    LET l == lower(text)
        hits == {i \in 1..Len(PredicateList) : \E kw \in PredicateList[i][2] : Contains(l, kw)}
    IN IF hits = {} THEN "Other"
       ELSE PredicateList[CHOOSE i \in hits : \A j \in hits : i <= j][1]

NormalizeExpected(loc) ==
    IF IsNull(loc) \/ IsBlankText(Val(loc)) THEN "Unknown" ELSE FirstMatchLabel(Val(loc))

NormalizeDone == pc = "done" /\ op = "normalize"

\* C1: for every location, null and all-whitespace text included, the
\* normalizer returns exactly one of the 16 labels: Unknown for null or
\* all-whitespace text, otherwise the label of the first predicate of the
\* ordered list whose keyword occurs in the text, otherwise Other.
C1_NormalizeTotalFirstMatch ==
    NormalizeDone =>
        /\ Len(result) = 1
        /\ result[1] \in Labels
        /\ result[1] = NormalizeExpected(idmap[1].location)

\* What does hold of the code: C1 on every location that is not white space
\* made of something else than spaces, which TRIM leaves in place.
NormalizeFirstMatchOffTabs ==
    (NormalizeDone /\ (IsNull(idmap[1].location)
                        \/ ~IsBlankText(Val(idmap[1].location))
                        \/ TRIM(Val(idmap[1].location)) = "")) =>
        /\ result[1] \in Labels
        /\ result[1] = NormalizeExpected(idmap[1].location)

\* C9: the normalizer maps "nuclear membrane" to Nucleus.
C9_NuclearMembraneIsNucleus ==
    (NormalizeDone /\ idmap[1].location = Some("nuclear membrane")) => result[1] = "Nucleus"

\* What the code returns for it: no Nucleus keyword occurs in "nuclear
\* membrane", so the membrane predicate is the first to match.
NuclearMembraneIsMembrane ==
    (NormalizeDone /\ idmap[1].location = Some("nuclear membrane")) => result[1] = "Membrane"

(***************************************************************************)
(* Properties of candidate search and display names (SpecSearch).          *)
(***************************************************************************)
CandidatesDone == pc = "done" /\ op = "get_candidates"

\* A search text that is non-empty, has no white space and is at most 12
\* characters long.
IdLikeText(text) ==
    /\ text # ""
    /\ \A i \in 1..Len(text) : CharAt(text, i) \notin {" ", "\t"}
    /\ Len(text) <= 12

\* C4: for an id-like search text the result holds no (id, displayName,
\* category) triple twice.
C4_CandidatesDeduplicated ==
    (CandidatesDone /\ IdLikeText(args.query_text)) =>
        \A i, j \in 1..Len(result) : result[i] = result[j] => i = j

\* The text is the id of a record of the table.
IsExactId(text) == \E i \in 1..Len(idmap) : idmap[i].id = text

\* The (id, displayName, category) row of the record whose id is text.
ExactRow(text) ==
    LET m == idmap[CHOOSE i \in 1..Len(idmap) : idmap[i].id = text]
    IN [id |-> m.id, pname |-> PName(m.protein_name, m.id), loc_cat |-> LOC_CAT_EXPR(m.location)]

\* C5: for an id-like search text that is the id of a record, and a limit of
\* at least 1, the exact-id record comes first: before every row of another
\* record, which matched by id prefix or by name substring only.
C5_ExactIdFirst ==
    (CandidatesDone /\ IdLikeText(args.query_text) /\ args.limit >= 1
        /\ IsExactId(args.query_text)) =>
        /\ Len(result) >= 1
        /\ result[1] = ExactRow(args.query_text)
        /\ \A j \in 1..Len(result) :
              result[j].id # args.query_text =>
                  \E i \in 1..(j - 1) : result[i].id = args.query_text

\* A search whose exact-id record is followed by a prefix match that would
\* sort before it by name.
C5_Witness ==
    /\ CandidatesDone /\ IdLikeText(args.query_text) /\ IsExactId(args.query_text)
    /\ \E j \in 2..Len(result) :
          /\ result[j].id # args.query_text
          /\ StrLess(result[j].pname, result[1].pname)

\* C6: get_candidates with empty text returns no row.
C6_EmptyTextEmptyResult ==
    (CandidatesDone /\ args.query_text = "") => result = <<>>

DisplayNameDone == pc = "done" /\ op = "get_display_name"

\* The protein_name of the record with this id (NULL when there is none or
\* its name is NULL).
NameOf(id) ==
    IF \E i \in 1..Len(idmap) : idmap[i].id = id
    THEN idmap[CHOOSE i \in 1..Len(idmap) : idmap[i].id = id].protein_name
    ELSE NULL

\* C7: for a non-empty id, get_display_name returns a text that is neither
\* empty nor all white space: the trimmed protein_name when the record has a
\* non-blank one, the id otherwise (no record, or a null or empty name).
C7_DisplayNameNeverBlank ==
    (DisplayNameDone /\ args.uniprot_id # "") =>
        /\ ~IsBlankText(result)
        /\ (IsNull(NameOf(args.uniprot_id)) \/ IsBlankText(Val(NameOf(args.uniprot_id))))
              => result = args.uniprot_id
        /\ (~IsNull(NameOf(args.uniprot_id)) /\ ~IsBlankText(Val(NameOf(args.uniprot_id))))
              => result = TRIM(Val(NameOf(args.uniprot_id)))

\* What does hold of the code: the fallback chain with "blank" read as TRIM
\* reads it, spaces only.
DisplayNameFallbackChain ==
    DisplayNameDone =>
        /\ (IsNull(NameOf(args.uniprot_id)) \/ TRIM(Val(NameOf(args.uniprot_id))) = "")
              => result = args.uniprot_id
        /\ (~IsNull(NameOf(args.uniprot_id)) /\ TRIM(Val(NameOf(args.uniprot_id))) # "")
              => result = TRIM(Val(NameOf(args.uniprot_id)))

(***************************************************************************)
(* Properties of the interaction fetch (SpecFetch).                        *)
(***************************************************************************)
FetchDone == pc = "done" /\ op = "fetch_interactions"

\* The edges that touch a protein.
Incident(id) == {i \in 1..Len(edges) : edges[i].src = id \/ edges[i].dst = id}

\* The other endpoint of an edge that touches id.
Other(e, id) == IF e.src = id THEN e.dst ELSE e.src

\* The location of a protein in the metadata table, NULL when it has none.
LocationOf(id) ==
    IF \E i \in 1..Len(idmap) : idmap[i].id = id
    THEN idmap[CHOOSE i \in 1..Len(idmap) : idmap[i].id = id].location
    ELSE NULL

\* C2: fetch_interactions returns at most limit rows; every row has
\* score >= minScore, the strength asked for when one is, and a partner
\* location category among those asked for when some are.
C2_FetchRespectsFilters ==
    FetchDone =>
        /\ Len(result) <= args.limit
        /\ \A i \in 1..Len(result) :
              /\ result[i].score >= args.min_score
              /\ ~IsNull(args.strength) => result[i].strength = Val(args.strength)
              /\ args.loc_cats # <<>> =>
                    /\ result[i].partner_location_category
                          \in {args.loc_cats[k] : k \in 1..Len(args.loc_cats)}
                    /\ result[i].partner_location_category
                          = LOC_CAT_EXPR(LocationOf(result[i].partner_id))

\* A fetch with all three filters set that kept a row and dropped another.
C2_Witness ==
    /\ FetchDone
    /\ args.min_score > 0 /\ ~IsNull(args.strength) /\ args.loc_cats # <<>>
    /\ Len(result) >= 1
    /\ Len(result) < args.limit
    /\ Len(result) < Cardinality(Incident(args.uniprot_id))

DefaultFetch ==
    /\ FetchDone
    /\ args.min_score = 0 /\ IsNull(args.strength) /\ args.loc_cats = <<>>
    /\ args.limit = DefaultFetchLimit

\* Every edge that touches the queried protein shows in the result as a row
\* for the other endpoint with the edge's score and strength.
EveryEdgeReturned ==
    LET got == {<<result[i].partner_id, result[i].score, result[i].strength>> :
                    i \in 1..Len(result)}
    IN \A i \in Incident(args.uniprot_id) :
          <<Other(edges[i], args.uniprot_id), edges[i].score, edges[i].strength>> \in got

\* C3 as claimed: for every edge (A,B), whichever endpoint is src, the fetch
\* for either endpoint with default parameters returns a row for the other
\* endpoint with the edge's score and strength.
C3_Symmetry == DefaultFetch => EveryEdgeReturned

\* C3 as amended: the same, for a queried protein with at most limit (5000 by
\* default) edges; beyond that LIMIT cuts the lowest-scored partners off.
C3_SymmetryWithinLimit ==
    (DefaultFetch /\ Cardinality(Incident(args.uniprot_id)) <= args.limit)
        => EveryEdgeReturned

\* A default fetch for a protein that is the dst of one edge and the src of
\* another, both returned.
C3_Witness ==
    /\ DefaultFetch
    /\ Cardinality(Incident(args.uniprot_id)) <= args.limit
    /\ \E i, j \in Incident(args.uniprot_id) :
          /\ edges[i].src = args.uniprot_id /\ edges[i].dst # args.uniprot_id
          /\ edges[j].dst = args.uniprot_id /\ edges[j].src # args.uniprot_id
    /\ Len(result) = 2

(***************************************************************************)
(* The source loader: get_con and _download_to_tmp, both behind            *)
(* st.cache_resource.  Each app process keeps its own cache_resource       *)
(* values and runs one get_con at a time (cache_resource computes a value  *)
(* under a lock); the processes share the file dst.  The remote file is    *)
(* remote chunks long, chunk k being the number k; a hole in the local     *)
(* file is a 0.                                                            *)
(***************************************************************************)
MaxCalls == 3

MaxChunks == 2

\* The value _download_to_tmp returns: str(dst).
DstPath == "ppi_explorer/idmap.parquet"

\* The whole remote content.
Complete == [k \in 1..remote |-> k]

\* A slip: the file at dst never taken for a cached download.
CacheHit_Never(f) == FALSE

\* dst.exists() and dst.stat().st_size > 0
CacheHit(f) == f.exists /\ Len(f.data) > 0

\* f.write(chunk) at offset off (counted from 1) of a file opened for writing
\* by this process: the bytes land at the writer's own offset, whatever the
\* file's length is by then.
WriteAt(data, off, chunk) ==
    [k \in 1..(IF off > Len(data) THEN off ELSE Len(data)) |->
        IF k = off THEN chunk ELSE IF k <= Len(data) THEN data[k] ELSE 0]

\* get_con() when the process holds the cached connection: cache_resource
\* returns it, the body does not run.
GetConCached(p) ==
    /\ proc[p].pc = "idle"
    /\ proc[p].con
    /\ calls < MaxCalls
    /\ calls' = calls + 1
    /\ proc' = [proc EXCEPT ![p].okBefore = TRUE, ![p].sawFile = FALSE,
                            ![p].after = downloaded, ![p].issued = FALSE,
                            ![p].served = NULL, ![p].outcome = "returned"]
    /\ UNCHANGED <<file, remote, downloaded, queryVars>>

\* get_con() when it does not: the body runs up to the call of
\* _download_to_tmp, which returns its cached value if the process has one,
\* else looks for the file at dst.
GetCon(p) ==
    /\ proc[p].pc = "idle"
    /\ ~proc[p].con
    /\ calls < MaxCalls
    /\ calls' = calls + 1
    /\ LET called == [proc[p] EXCEPT !.okBefore = ~IsNull(proc[p].memo),
                                     !.sawFile = file.exists /\ file.data # <<>>,
                                     !.after = downloaded, !.issued = FALSE,
                                     !.served = NULL, !.outcome = "none", !.pos = 0]
       IN IF ~IsNull(proc[p].memo)
          THEN proc' = [proc EXCEPT ![p] = [called EXCEPT !.pc = "view",
                                                          !.served = Some(file.data)]]
          ELSE IF CacheHit(file)
          THEN proc' = [proc EXCEPT ![p] = [called EXCEPT !.pc = "view",
                                                          !.memo = Some(DstPath),
                                                          !.served = Some(file.data)]]
          ELSE proc' = [proc EXCEPT ![p] = [called EXCEPT !.pc = "request"]]
    /\ UNCHANGED <<file, remote, downloaded, queryVars>>

\* requests.get(...) answered with a 2xx status.
RequestOk(p) ==
    /\ proc[p].pc = "request"
    /\ proc' = [proc EXCEPT ![p].pc = "open", ![p].issued = TRUE]
    /\ UNCHANGED <<file, remote, calls, downloaded, queryVars>>

\* requests.get(...) fails, or raise_for_status() raises on a non-2xx
\* status: the exception leaves _download_to_tmp and get_con, nothing is
\* cached, dst is not touched.
RequestFails(p) ==
    /\ proc[p].pc = "request"
    /\ proc' = [proc EXCEPT ![p].pc = "idle", ![p].issued = TRUE, ![p].outcome = "raised"]
    /\ UNCHANGED <<file, remote, calls, downloaded, queryVars>>

\* open(dst, "wb"): creates the file or cuts it to length 0.
OpenFile(p) ==
    /\ proc[p].pc = "open"
    /\ file' = [exists |-> TRUE, data |-> <<>>]
    /\ proc' = [proc EXCEPT ![p].pc = "write", ![p].pos = 0]
    /\ UNCHANGED <<remote, calls, downloaded, queryVars>>

\* One turn of the loop over r.iter_content: the next chunk is written.
WriteChunk(p) ==
    /\ proc[p].pc = "write"
    /\ proc[p].pos < remote
    /\ file' = [file EXCEPT !.data = WriteAt(file.data, proc[p].pos + 1, proc[p].pos + 1)]
    /\ proc' = [proc EXCEPT ![p].pos = proc[p].pos + 1]
    /\ UNCHANGED <<remote, calls, downloaded, queryVars>>

\* The connection breaks (or times out) while the body is read: iter_content
\* raises, the with blocks close the file as it is, the exception leaves
\* _download_to_tmp and get_con.  It can happen after any number of chunks,
\* the last included: a chunked body whose end marker never comes raises
\* once every chunk has been written.
StreamFails(p) ==
    /\ proc[p].pc = "write"
    /\ proc' = [proc EXCEPT ![p].pc = "idle", ![p].outcome = "raised"]
    /\ UNCHANGED <<file, remote, calls, downloaded, queryVars>>

\* The loop ends: _download_to_tmp returns str(dst), which cache_resource
\* keeps.  iter_content ends when the body does, and also, without raising,
\* when the connection is closed before Content-Length bytes have come (the
\* code checks no length and pins no library version that would): the loop
\* can end after any number of chunks.
FinishDownload(p) ==
    /\ proc[p].pc = "write"
    /\ proc' = [proc EXCEPT ![p].pc = "view", ![p].memo = Some(DstPath),
                            ![p].served = Some(file.data)]
    /\ downloaded' = TRUE
    /\ UNCHANGED <<file, remote, calls, queryVars>>

\* What parquet_scan reads to bind the view: the footer, which is the end of
\* the file.  It is readable when the file has its full length and its last
\* chunk is the content's last chunk, whatever comes before.
FooterReadable(f) ==
    f.exists /\ Len(f.data) = remote /\ f.data[remote] = remote

\* CREATE OR REPLACE VIEW idmap ... parquet_scan(dst): the engine reads the
\* file's footer, and get_con returns the connection, which cache_resource
\* keeps; on a file whose footer cannot be read the statement raises.
CreateView(p) ==
    /\ proc[p].pc = "view"
    /\ IF FooterReadable(file)
       THEN proc' = [proc EXCEPT ![p].pc = "idle", ![p].con = TRUE, ![p].outcome = "returned"]
       ELSE proc' = [proc EXCEPT ![p].pc = "idle", ![p].outcome = "raised"]
    /\ UNCHANGED <<file, remote, calls, downloaded, queryVars>>

\* The process ends, wherever it is, and a new one starts: cache_resource
\* starts empty, the temporary directory is as it was left.
Restart(p) ==
    /\ proc[p] # FreshProc
    /\ proc' = [proc EXCEPT ![p] = FreshProc]
    /\ UNCHANGED <<file, remote, calls, downloaded, queryVars>>

InitCache ==
    /\ idmap = <<>>
    /\ edges = <<>>
    /\ op = "none"
    /\ args = <<>>
    /\ pc = "call"
    /\ result = <<>>
    /\ file = NoFile
    /\ remote \in 1..MaxChunks
    /\ proc = [p \in Procs |-> FreshProc]
    /\ calls = 0
    /\ downloaded = FALSE

NextCache ==
    \E p \in Procs :
        \/ GetConCached(p)
        \/ GetCon(p)
        \/ RequestOk(p)
        \/ RequestFails(p)
        \/ OpenFile(p)
        \/ WriteChunk(p)
        \/ StreamFails(p)
        \/ FinishDownload(p)
        \/ CreateView(p)
        \/ Restart(p)

SpecCache == InitCache /\ [][NextCache]_vars

(***************************************************************************)
(* Properties of the source loader (SpecCache).                            *)
(***************************************************************************)
\* C8: a call made once a download has completed, when the cache file
\* exists and is non-empty, returns the cached path without an HTTP request;
\* and a process that has loaded the source once makes no request when it
\* loads it again.
C8_CacheReuse ==
    \A p \in Procs :
        ((proc[p].after /\ proc[p].sawFile) \/ proc[p].okBefore) =>
            /\ ~proc[p].issued
            /\ proc[p].pc \notin {"request", "open", "write"}
            /\ ~IsNull(proc[p].served) \/ proc[p].outcome = "returned"

\* A call of a newly started process that found the file a completed
\* download had left, and returned the connection over it.
C8_Witness ==
    \E p \in Procs :
        /\ proc[p].after /\ proc[p].sawFile /\ ~proc[p].okBefore
        /\ ~proc[p].issued
        /\ proc[p].outcome = "returned"
        /\ proc[p].memo = Some(DstPath)

\* C10: whenever _download_to_tmp returns the cache path, the file at that
\* path holds the complete content of a successful download.
C10_ReturnedFileComplete ==
    \A p \in Procs : ~IsNull(proc[p].served) => Val(proc[p].served) = Complete

=============================================================================
